---- MODULE Spec2Model ----
(***************************************************************************)
(* The offline data/cache subsystem of the Quran reader: the IndexedDB     *)
(* stores of src/lib/storage.ts, the useSurah query function of            *)
(* src/hooks/useQuran.ts with its background refresh, the download         *)
(* manager's writes and the bookmark operations.                           *)
(*                                                                         *)
(* Spec           the cache orchestrator: one useSurah query, its          *)
(*                background refresh, downloads of other surahs, clears    *)
(* SpecStore      concurrent cacheAyahs callers and readers of the ayahs   *)
(*                store, put by put                                        *)
(* SpecIdem       cacheAyahs applied once and twice to the same batch      *)
(* SpecBookmarks  the bookmarks store                                      *)
(***************************************************************************)
EXTENDS Integers, Sequences, FiniteSets, TLC

\* ---------------------------------------------------------------- bounds
MaxSurah == 2
MaxAyah == 2
MaxGlobal == 2
MaxBatch == 2
IdemAyah == 2
IdemGlobal == 3
IdemBatch == 4
MaxBookmarkAyah == 2
MaxClock == 2
MaxImport == 2

\* The surah whose verses the bookmark operations are called with.
BookmarkSurah == 2

\* ------------------------------------------------------ program constants
SchemaMaxSurah == 114
SchemaMaxGlobal == 6236
SchemaMaxJuz == 30

Surahs == 1..MaxSurah

\* The surah whose page is open: the query key ['surah', n] of useSurah.
Queried == {1}

\* ------------------------------------------------------- sequence helpers
Range(s) == {s[i] : i \in 1..Len(s)}

SeqsUpTo(S, n) == UNION {[1..k -> S] : k \in 0..n}

\* Array.prototype.sort with the comparator (a, b) => a[key] - b[key]:
\* a stable ascending sort.
SortAsc(s, key) ==
  LET ins[i \in 0..Len(s)] ==
        IF i = 0 THEN <<>>
        ELSE LET t == ins[i - 1]
                 k == Cardinality({j \in 1..Len(t) : t[j][key] <= s[i][key]})
             IN  SubSeq(t, 1, k) \o <<s[i]>> \o SubSeq(t, k + 1, Len(t))
  IN  ins[Len(s)]

\* ------------------------------------------------------------ ayahs store
\* A stored verse; the primary key is [surahNumber, ayahNumber].
AyahKey(a) == <<a.surahNumber, a.ayahNumber>>

KeyRank(a) == a.surahNumber * (MaxAyah + 1) + a.ayahNumber

\* The records of a store in primary-key order, as getAll() lists them.
RECURSIVE KeyOrder(_)
KeyOrder(S) ==
  IF S = {} THEN <<>>
  ELSE LET m == CHOOSE r \in S : \A x \in S : KeyRank(r) <= KeyRank(x)
       IN  <<m>> \o KeyOrder(S \ {m})

\* The 'global' index is unique: a put is refused when another key already
\* holds the record's globalAyahNumber.
GlobalIndexNotUnique(store, a) == FALSE

GlobalIndexViolation(store, a) ==
  \E r \in store : /\ AyahKey(r) # AyahKey(a)
                   /\ r.globalAyahNumber = a.globalAyahNumber

\* store.put(ayah): upsert by primary key.
PutAyah(store, a) == {r \in store : AyahKey(r) # AyahKey(a)} \cup {a}

\* getAllFromStore(STORES.AYAHS, 'surah', n) / getAllFromStore(STORES.AYAHS)
GetAllFromStore(store, bySurah, n) ==
  KeyOrder(IF bySurah THEN {r \in store : r.surahNumber = n} ELSE store)

AyahNumberOf == "ayahNumber"
GlobalNumberOf == "globalAyahNumber"

getCachedSurah(store, n) == SortAsc(GetAllFromStore(store, TRUE, n), AyahNumberOf)

getAllCachedAyahsUnsorted(store) == GetAllFromStore(store, FALSE, 0)

getAllCachedAyahs(store) == SortAsc(GetAllFromStore(store, FALSE, 0), GlobalNumberOf)

isSurahCached(store, n) == Len(getCachedSurah(store, n)) > 0

\* ---------------------------------------------------------- remote fetcher
\* One verse of an upstream edition, as ApiAyahResponseSchema accepts it.
ApiAyahs == [numberInSurah : 1..MaxAyah, number : 1..MaxGlobal]

ApiResponses == SeqsUpTo(ApiAyahs, MaxBatch)

normalizeAyah(apiAyah, surahNumber) ==
  [surahNumber |-> surahNumber,
   ayahNumber |-> apiAyah.numberInSurah,
   globalAyahNumber |-> apiAyah.number]

\* fetchSurah on a successful Arabic edition: normalize every verse, then sort.
fetchSurah(surahNumber, resp) ==
  SortAsc([i \in 1..Len(resp) |-> normalizeAyah(resp[i], surahNumber)], AyahNumberOf)

FetchErrors == {"E_NETWORK", "E_API_FETCH"}

\* --------------------------------------------- cacheAyahs as a whole
\* cacheAyahs issues every put of the batch inside one readwrite transaction:
\* a failed put aborts the transaction and undoes the puts before it. With a
\* transaction per put, the puts before the failed one would stay.
OneTransactionPerPut == FALSE

OneTransactionPerBatch == TRUE

RECURSIVE ApplyPuts(_, _)
ApplyPuts(store, b) ==
  IF b = <<>> THEN [ok |-> TRUE, store |-> store]
  ELSE IF GlobalIndexViolation(store, Head(b)) THEN [ok |-> FALSE, store |-> store]
  ELSE ApplyPuts(PutAyah(store, Head(b)), Tail(b))

\* The ayahs store after cacheAyahs(b) has settled.
cacheAyahs(store, b) ==
  LET r == ApplyPuts(store, b)
  IN  IF r.ok \/ ~OneTransactionPerBatch THEN r.store ELSE store

\* ------------------------------------------------------------------ state
\* Logical tasks that call cacheAyahs: the useSurah query function of surah
\* n and the background refresh it detaches (Spec); the download manager's
\* downloadSurah and SurahPage's handleDownload (SpecStore).
fg(n) == <<"fg", n>>
bg(n) == <<"bg", n>>
dl == <<"dl", 0>>
hd == <<"hd", 0>>
Downloaders == {dl, hd}
Tasks == {fg(n) : n \in Queried} \cup {bg(n) : n \in Queried} \cup Downloaders

NoTxn == [owner |-> <<"none", 0>>, snapshot |-> {}]

NoResult == [kind |-> "none", ayahs |-> <<>>, code |-> ""]
Ok(ayahs) == [kind |-> "ok", ayahs |-> ayahs, code |-> ""]
Err(code) == [kind |-> "err", ayahs |-> <<>>, code |-> code]

\* new Error('No cached data available offline'): a plain Error, no errorCode.
NoCacheOffline == "No cached data available offline"

\* The errorCode values createError is called with. A thrown value whose code
\* is none of them is a plain Error: it has no errorCode and no recoverable.
AppErrorCodes ==
  {"E_NETWORK", "E_API_FETCH", "E_DB_INIT", "E_DB_READ", "E_DB_WRITE", "E_DB_DELETE",
   "E_INVALID_SETTINGS", "E_IMPORT_FAILED", "E_INVALID_IMPORT"}

VARIABLES
  online,      \* navigator.onLine, as the online/offline events keep it
  ayahStore,   \* the ayahs object store (working state of the active transaction)
  txn,         \* the active readwrite transaction on the ayahs store
  committed,   \* the ayahs store as the last settled cacheAyahs or clear left it
  torn,        \* whether a read saw, or a failed cacheAyahs left, part of a batch
  cacheMeta,   \* the cache store: who last wrote the timestamp of surah-n
  pc,          \* position of every task
  isOffline,   \* the isOffline flag the query function of surah n closed over
  batch,       \* the ayahs array a task hands to cacheAyahs
  written,     \* how many puts of the batch the task has issued
  result,      \* what the query function of surah n returned or threw
  netCall,     \* whether the query function of surah n called fetchSurah
  bgStamp,     \* the refresh's setCacheTimestamp promise
  served,      \* the verses an online query of surah n returned, while the store still holds them
  idemStore,   \* SpecIdem: the ayahs store
  idemArg,     \* SpecIdem: the batch cacheAyahs is called with
  idemOnce,    \* SpecIdem: the store after the first call
  idemCalls,   \* SpecIdem: calls made with idemArg
  bookmarks,   \* the bookmarks object store
  now,         \* the clock new Date() reads
  lastAdd,     \* the last addBookmark call: its key, and whether the key was bookmarked
  lastImport,  \* the last import of bookmarks: its kind, its outcome, the store before it
  settingsStore, \* the settings object store: <<>> or the one record of id user-settings
  lastUpdate,  \* the last settings call: its kind, its argument, its outcome, the store before it
  searchCall,  \* the searchAyahs call made: <<>> or its arguments and its result
  csvCall,     \* the CSV file handleImportCSV was given: <<>> or the file
  fetchCall,   \* the fetchSurah or fetchAyah call made: <<>> or what upstream answered and the outcome
  db,          \* storage.ts `db`: whether initDB has cached the open database
  ayahCall,    \* the last useAyah query: <<>> or its verse, whether it called fetchAyah, how it ended
  fetchedAyahs, \* the verses an earlier useAyah query fetched successfully
  updaters,    \* the updateSettings calls under way: position, argument and the settings each one read
  searchHook,  \* useSearch: its state, the performSearch calls in flight, the last one issued
  schemaStore, \* the ayahs store, its records with every field AyahSchema constrains
  schemaCall,  \* the last write path run: <<>> or its surah, whether upstream passed its schema, how fetchSurah ended
  requestedSurahs, \* the surah numbers the write paths were run for
  engineCall   \* the last store operation run against the engine: <<>> or its events and how its promise ended

storeVars == <<ayahStore, txn, committed, torn>>
taskVars == <<pc, batch, written>>
queryVars == <<cacheMeta, isOffline, result, netCall, bgStamp, served>>
cacheVars == <<online, storeVars, taskVars, queryVars>>
idemVars == <<idemStore, idemArg, idemOnce, idemCalls>>
bookmarkVars == <<bookmarks, now, lastAdd, lastImport>>
settingsVars == <<settingsStore, lastUpdate>>
searchVars == <<searchCall>>
csvVars == <<csvCall>>
fetchVars == <<fetchCall>>
engineVars == <<db, engineCall>>
ayahVars == <<ayahCall, fetchedAyahs>>
raceVars == <<updaters>>
hookVars == <<searchHook>>
schemaVars == <<schemaStore, schemaCall, requestedSurahs>>
extVars ==
  <<settingsVars, searchVars, csvVars, fetchVars, engineVars, ayahVars, raceVars, hookVars,
    schemaVars>>
vars == <<cacheVars, idemVars, bookmarkVars, extVars>>

InitCache ==
  /\ online \in BOOLEAN
  /\ ayahStore = {}
  /\ txn = NoTxn
  /\ committed = {}
  /\ torn = FALSE
  /\ cacheMeta = [n \in Queried |-> "none"]
  /\ pc = [t \in Tasks |-> "idle"]
  /\ isOffline = [n \in Queried |-> FALSE]
  /\ batch = [t \in Tasks |-> <<>>]
  /\ written = [t \in Tasks |-> 0]
  /\ result = [n \in Queried |-> NoResult]
  /\ netCall = [n \in Queried |-> FALSE]
  /\ bgStamp = [n \in Queried |-> "none"]
  /\ served = [n \in Queried |-> <<>>]

\* ------------------------------------------------- connectivity events
\* handleOnline / handleOffline
GoOnline == /\ ~online
            /\ online' = TRUE
            /\ UNCHANGED <<storeVars, taskVars, queryVars>>
            /\ UNCHANGED <<idemVars, bookmarkVars, extVars>>

GoOffline == /\ online
             /\ online' = FALSE
             /\ UNCHANGED <<storeVars, taskVars, queryVars>>
             /\ UNCHANGED <<idemVars, bookmarkVars, extVars>>

\* ------------------------------------------------------- useSurah queryFn
\* The served verses of every surah that the store, once it is `store`,
\* still returns unchanged.
StillServed(store) ==
  [n \in Queried |-> IF getCachedSurah(store, n) = served[n] THEN served[n] ELSE <<>>]

BgSettled(n) == /\ pc[bg(n)] \in {"idle", "logged", "cached", "cachefailed"}
                /\ bgStamp[n] \in {"none", "ok", "err"}

\* The query function of surah n is invoked (one invocation per query key at a
\* time); it closes over the isOffline flag of the current render.
QueryStart(n) ==
  /\ pc[fg(n)] \in {"idle", "done"}
  /\ BgSettled(n)
  /\ pc' = [pc EXCEPT ![fg(n)] = "reading", ![bg(n)] = "idle"]
  /\ isOffline' = [isOffline EXCEPT ![n] = ~online]
  /\ result' = [result EXCEPT ![n] = NoResult]
  /\ netCall' = [netCall EXCEPT ![n] = FALSE]
  /\ bgStamp' = [bgStamp EXCEPT ![n] = "none"]
  /\ batch' = [batch EXCEPT ![fg(n)] = <<>>, ![bg(n)] = <<>>]
  /\ written' = [written EXCEPT ![fg(n)] = 0, ![bg(n)] = 0]
  /\ UNCHANGED <<online, storeVars, cacheMeta, served>>
  /\ UNCHANGED <<idemVars, bookmarkVars, extVars>>

\* if (!isOffline) on the cache-hit path
RefreshAlways(offline) == TRUE

ShouldRefresh(offline) == ~offline

\* if (isOffline) throw, on the cache-miss path
FetchAnyway(offline) == FALSE

ThrowsOffline(offline) == offline

\* if (cached.length > 0)
NeverHit(cached) == FALSE

CacheHit(cached) == Len(cached) > 0

\* const cached = await getCachedSurah(surahNumber) and the branch on it. The
\* readonly transaction runs once no readwrite transaction holds the store.
QueryRead(n) ==
  /\ pc[fg(n)] = "reading"
  /\ txn = NoTxn
  /\ LET cached == getCachedSurah(ayahStore, n) IN
       IF CacheHit(cached)
       THEN /\ result' = [result EXCEPT ![n] = Ok(cached)]
            /\ IF ShouldRefresh(isOffline[n])
               THEN /\ pc' = [pc EXCEPT ![fg(n)] = "done", ![bg(n)] = "fetching"]
                    /\ netCall' = [netCall EXCEPT ![n] = TRUE]
               ELSE /\ pc' = [pc EXCEPT ![fg(n)] = "done"]
                    /\ UNCHANGED netCall
            /\ served' = IF isOffline[n] THEN served ELSE [served EXCEPT ![n] = cached]
       ELSE IF ThrowsOffline(isOffline[n])
       THEN /\ result' = [result EXCEPT ![n] = Err(NoCacheOffline)]
            /\ pc' = [pc EXCEPT ![fg(n)] = "done"]
            /\ UNCHANGED <<netCall, served>>
       ELSE /\ pc' = [pc EXCEPT ![fg(n)] = "fetching"]
            /\ netCall' = [netCall EXCEPT ![n] = TRUE]
            /\ UNCHANGED <<result, served>>
  /\ torn' = (torn \/ ayahStore # committed)
  /\ UNCHANGED <<online, ayahStore, txn, committed, cacheMeta, isOffline, batch, written,
                 bgStamp>>
  /\ UNCHANGED <<idemVars, bookmarkVars, extVars>>

\* getAllFromStore's request.onerror: the read rejects with E_DB_READ.
QueryReadFail(n) ==
  /\ pc[fg(n)] = "reading"
  /\ txn = NoTxn
  /\ result' = [result EXCEPT ![n] = Err("E_DB_READ")]
  /\ pc' = [pc EXCEPT ![fg(n)] = "done"]
  /\ UNCHANGED <<online, storeVars, cacheMeta, isOffline, batch, written, netCall,
                 bgStamp, served>>
  /\ UNCHANGED <<idemVars, bookmarkVars, extVars>>

\* const ayahs = await fetchSurah(surahNumber) rejects: the query rejects.
QueryFetchFail(n, code) ==
  /\ pc[fg(n)] = "fetching"
  /\ result' = [result EXCEPT ![n] = Err(code)]
  /\ pc' = [pc EXCEPT ![fg(n)] = "done"]
  /\ UNCHANGED <<online, storeVars, cacheMeta, isOffline, batch, written, netCall,
                 bgStamp, served>>
  /\ UNCHANGED <<idemVars, bookmarkVars, extVars>>

\* fetchSurah resolves; await cacheAyahs(ayahs) is called.
QueryFetchOk(n, resp) ==
  /\ pc[fg(n)] = "fetching"
  /\ pc' = [pc EXCEPT ![fg(n)] = "caching"]
  /\ batch' = [batch EXCEPT ![fg(n)] = fetchSurah(n, resp)]
  /\ written' = [written EXCEPT ![fg(n)] = 0]
  /\ UNCHANGED <<online, storeVars, queryVars>>
  /\ UNCHANGED <<idemVars, bookmarkVars, extVars>>

\* await setCacheTimestamp(`surah-${surahNumber}`); return ayahs
QueryStamp(n) ==
  /\ pc[fg(n)] = "stamping"
  /\ cacheMeta' = [cacheMeta EXCEPT ![n] = "fg"]
  /\ result' = [result EXCEPT ![n] = Ok(batch[fg(n)])]
  /\ pc' = [pc EXCEPT ![fg(n)] = "done"]
  /\ served' = [served EXCEPT ![n] =
                  IF getCachedSurah(ayahStore, n) = batch[fg(n)] THEN batch[fg(n)] ELSE <<>>]
  /\ UNCHANGED <<online, storeVars, isOffline, batch, written, netCall, bgStamp>>
  /\ UNCHANGED <<idemVars, bookmarkVars, extVars>>

\* putToStore's request.onerror under setCacheTimestamp: the query rejects.
QueryStampFail(n) ==
  /\ pc[fg(n)] = "stamping"
  /\ result' = [result EXCEPT ![n] = Err("E_DB_WRITE")]
  /\ pc' = [pc EXCEPT ![fg(n)] = "done"]
  /\ UNCHANGED <<online, storeVars, cacheMeta, isOffline, batch, written, netCall,
                 bgStamp, served>>
  /\ UNCHANGED <<idemVars, bookmarkVars, extVars>>

\* ------------------------------------------------- cacheAyahs, put by put
\* The promise of cacheAyahs resolves (transaction.oncomplete).
Resolved(t) ==
  /\ pc' = [pc EXCEPT ![t] = IF t[1] = "fg" THEN "stamping"
                             ELSE IF t[1] = "bg" THEN "cached" ELSE "idle"]
  /\ batch' = [batch EXCEPT ![t] = IF t[1] = "fg" THEN batch[t] ELSE <<>>]
  /\ written' = [written EXCEPT ![t] = IF t[1] = "fg" THEN written[t] ELSE 0]
  /\ UNCHANGED result

\* The promise of cacheAyahs rejects with E_DB_WRITE (transaction.onerror):
\* the query function rethrows it, the downloaders catch it, and the refresh
\* has attached no handler to it.
Rejected(t) ==
  /\ pc' = [pc EXCEPT ![t] = IF t[1] = "fg" THEN "done"
                             ELSE IF t[1] = "bg" THEN "cachefailed" ELSE "idle"]
  /\ result' = IF t[1] = "fg" THEN [result EXCEPT ![t[2]] = Err("E_DB_WRITE")] ELSE result
  /\ batch' = [batch EXCEPT ![t] = <<>>]
  /\ written' = [written EXCEPT ![t] = 0]

\* database.transaction(STORES.AYAHS, 'readwrite') starts once the store is free.
CacheBegin(t) ==
  /\ pc[t] = "caching"
  /\ txn = NoTxn
  /\ txn' = [owner |-> t, snapshot |-> ayahStore]
  /\ UNCHANGED <<online, ayahStore, committed, torn, taskVars, queryVars>>
  /\ UNCHANGED <<idemVars, bookmarkVars, extVars>>

\* The next store.put(ayah) of the batch is carried out. A put the unique
\* 'global' index refuses fails its request: the transaction aborts, every
\* put of the transaction is undone and the promise rejects.
CachePut(t) ==
  /\ txn.owner = t
  /\ written[t] < Len(batch[t])
  /\ LET a == batch[t][written[t] + 1] IN
       IF GlobalIndexViolation(ayahStore, a)
       THEN /\ ayahStore' = txn.snapshot
            /\ txn' = NoTxn
            /\ torn' = (torn \/ ayahStore' # committed)
            /\ Rejected(t)
       ELSE /\ ayahStore' = PutAyah(ayahStore, a)
            /\ written' = [written EXCEPT ![t] = written[t] + 1]
            /\ txn' = IF OneTransactionPerBatch THEN txn ELSE NoTxn
            /\ UNCHANGED <<torn, pc, batch, result>>
  /\ served' = StillServed(ayahStore')
  /\ UNCHANGED <<online, committed, cacheMeta, isOffline, netCall, bgStamp>>
  /\ UNCHANGED <<idemVars, bookmarkVars, extVars>>

\* The storage engine fails a put (quota, I/O): same abort and rejection.
CachePutError(t) ==
  /\ txn.owner = t
  /\ written[t] < Len(batch[t])
  /\ ayahStore' = txn.snapshot
  /\ txn' = NoTxn
  /\ torn' = (torn \/ ayahStore' # committed)
  /\ Rejected(t)
  /\ served' = StillServed(ayahStore')
  /\ UNCHANGED <<online, committed, cacheMeta, isOffline, netCall, bgStamp>>
  /\ UNCHANGED <<idemVars, bookmarkVars, extVars>>

\* Every put is done: the transaction completes.
CacheCommit(t) ==
  /\ txn.owner = t
  /\ written[t] = Len(batch[t])
  /\ txn' = NoTxn
  /\ committed' = ayahStore
  /\ Resolved(t)
  /\ UNCHANGED <<online, ayahStore, torn, cacheMeta, isOffline, netCall, bgStamp, served>>
  /\ UNCHANGED <<idemVars, bookmarkVars, extVars>>

\* ---------------------------------------------------- background refresh
\* fetchSurah(surahNumber) rejects with E_NETWORK or E_API_FETCH: the
\* rejection reaches .catch(console.error) and is logged.
BgFetchFail(n) ==
  /\ pc[bg(n)] = "fetching"
  /\ pc' = [pc EXCEPT ![bg(n)] = "logged"]
  /\ UNCHANGED <<online, storeVars, batch, written, queryVars>>
  /\ UNCHANGED <<idemVars, bookmarkVars, extVars>>

\* fetchSurah resolves: the then-callback calls cacheAyahs(ayahs) and
\* setCacheTimestamp(...) one after the other, awaiting neither.
BgFetchOk(n, resp) ==
  /\ pc[bg(n)] = "fetching"
  /\ pc' = [pc EXCEPT ![bg(n)] = "caching"]
  /\ batch' = [batch EXCEPT ![bg(n)] = fetchSurah(n, resp)]
  /\ written' = [written EXCEPT ![bg(n)] = 0]
  /\ bgStamp' = [bgStamp EXCEPT ![n] = "pending"]
  /\ UNCHANGED <<online, storeVars, cacheMeta, isOffline, result, netCall, served>>
  /\ UNCHANGED <<idemVars, bookmarkVars, extVars>>

\* The refresh's setCacheTimestamp write succeeds.
BgStamp(n) ==
  /\ bgStamp[n] = "pending"
  /\ bgStamp' = [bgStamp EXCEPT ![n] = "ok"]
  /\ cacheMeta' = [cacheMeta EXCEPT ![n] = "bg"]
  /\ UNCHANGED <<online, storeVars, taskVars, isOffline, result, netCall, served>>
  /\ UNCHANGED <<idemVars, bookmarkVars, extVars>>

\* The refresh's setCacheTimestamp write fails: its promise rejects, and the
\* then-callback has attached no handler to it.
BgStampFail(n) ==
  /\ bgStamp[n] = "pending"
  /\ bgStamp' = [bgStamp EXCEPT ![n] = "err"]
  /\ UNCHANGED <<online, storeVars, taskVars, cacheMeta, isOffline, result, netCall, served>>
  /\ UNCHANGED <<idemVars, bookmarkVars, extVars>>

\* Rejected promises nothing handles: the refresh's cacheAyahs and
\* setCacheTimestamp calls, whose promises the then-callback drops.
UnhandledRejections ==
  {<<"cacheAyahs", n>> : n \in {m \in Queried : pc[bg(m)] = "cachefailed"}}
    \cup {<<"setCacheTimestamp", n>> : n \in {m \in Queried : bgStamp[m] = "err"}}

\* ------------------------------------------------------------ downloads
\* downloadSurah of a surah whose page is not open, start to end: fetchSurah,
\* then cacheAyahs in its one transaction.
DownloadOther(m, resp) ==
  /\ online
  /\ txn = NoTxn
  /\ m \notin Queried
  /\ ayahStore' = cacheAyahs(ayahStore, fetchSurah(m, resp))
  /\ committed' = ayahStore'
  /\ served' = StillServed(ayahStore')
  /\ UNCHANGED <<online, txn, torn, taskVars, cacheMeta, isOffline, result, netCall, bgStamp>>
  /\ UNCHANGED <<idemVars, bookmarkVars, extVars>>

\* clearDownloads: store.clear() in its own readwrite transaction.
ClearDownloads ==
  /\ txn = NoTxn
  /\ ayahStore # {}
  /\ ayahStore' = {}
  /\ committed' = {}
  /\ served' = StillServed({})
  /\ UNCHANGED <<online, txn, torn, taskVars, cacheMeta, isOffline, result, netCall, bgStamp>>
  /\ UNCHANGED <<idemVars, bookmarkVars, extVars>>

Orchestrator == {fg(n) : n \in Queried} \cup {bg(n) : n \in Queried}

Next ==
  \/ GoOnline
  \/ GoOffline
  \/ \E n \in Queried : QueryStart(n)
  \/ \E n \in Queried : QueryRead(n)
  \/ \E n \in Queried : QueryReadFail(n)
  \/ \E n \in Queried, code \in FetchErrors : QueryFetchFail(n, code)
  \/ \E n \in Queried, resp \in ApiResponses : QueryFetchOk(n, resp)
  \/ \E n \in Queried : QueryStamp(n)
  \/ \E n \in Queried : QueryStampFail(n)
  \/ \E t \in Orchestrator : CacheBegin(t)
  \/ \E t \in Orchestrator : CachePut(t)
  \/ \E t \in Orchestrator : CachePutError(t)
  \/ \E t \in Orchestrator : CacheCommit(t)
  \/ \E n \in Queried : BgFetchFail(n)
  \/ \E n \in Queried, resp \in ApiResponses : BgFetchOk(n, resp)
  \/ \E n \in Queried : BgStamp(n)
  \/ \E n \in Queried : BgStampFail(n)
  \/ \E m \in Surahs, resp \in ApiResponses : DownloadOther(m, resp)
  \/ ClearDownloads

\* ------------------------------------- the ayahs store under its callers
\* downloadSurah: fetchSurah resolved, await cacheAyahs(ayahs) is called.
DownloadSurah(n, resp) ==
  /\ pc[dl] = "idle"
  /\ online
  /\ pc' = [pc EXCEPT ![dl] = "caching"]
  /\ batch' = [batch EXCEPT ![dl] = fetchSurah(n, resp)]
  /\ written' = [written EXCEPT ![dl] = 0]
  /\ UNCHANGED <<online, storeVars, queryVars>>
  /\ UNCHANGED <<idemVars, bookmarkVars, extVars>>

\* SurahPage.handleDownload: cacheAyahs(ayahs) on the non-empty array the
\* query of surah n returned, an earlier result of fetchSurah.
HandleDownload(n, resp) ==
  /\ pc[hd] = "idle"
  /\ Len(resp) > 0
  /\ pc' = [pc EXCEPT ![hd] = "caching"]
  /\ batch' = [batch EXCEPT ![hd] = fetchSurah(n, resp)]
  /\ written' = [written EXCEPT ![hd] = 0]
  /\ UNCHANGED <<online, storeVars, queryVars>>
  /\ UNCHANGED <<idemVars, bookmarkVars, extVars>>

\* A reader (getCachedSurah, getAllCachedAyahs, isSurahCached): its readonly
\* transaction runs once no readwrite transaction holds the store.
ReadStore ==
  /\ txn = NoTxn
  /\ torn' = (torn \/ ayahStore # committed)
  /\ UNCHANGED <<online, ayahStore, txn, committed, taskVars, queryVars>>
  /\ UNCHANGED <<idemVars, bookmarkVars, extVars>>

NextStore ==
  \/ GoOnline
  \/ GoOffline
  \/ \E n \in Surahs, resp \in ApiResponses : DownloadSurah(n, resp)
  \/ \E n \in Surahs, resp \in ApiResponses : HandleDownload(n, resp)
  \/ \E t \in Downloaders : CacheBegin(t)
  \/ \E t \in Downloaders : CachePut(t)
  \/ \E t \in Downloaders : CachePutError(t)
  \/ \E t \in Downloaders : CacheCommit(t)
  \/ ReadStore
  \/ ClearDownloads

\* ---------------------------------------------- cacheAyahs, once and twice
InitIdem ==
  /\ idemStore = {}
  /\ idemArg = <<>>
  /\ idemOnce = {}
  /\ idemCalls = 0

IdemAyahs == [surahNumber : {1}, ayahNumber : 1..IdemAyah, globalAyahNumber : 1..IdemGlobal]

IdemBatches == SeqsUpTo(IdemAyahs, IdemBatch)

\* Some caller's cacheAyahs(b) settles: the stores the calls under test start from.
IdemSeed(b) ==
  /\ idemCalls = 0
  /\ Len(b) <= 2
  /\ idemStore' = cacheAyahs(idemStore, b)
  /\ UNCHANGED <<idemArg, idemOnce, idemCalls, cacheVars, bookmarkVars, extVars>>

\* cacheAyahs(b), the first call.
IdemFirst(b) ==
  /\ idemCalls = 0
  /\ idemArg' = b
  /\ idemStore' = cacheAyahs(idemStore, b)
  /\ idemOnce' = idemStore'
  /\ idemCalls' = 1
  /\ UNCHANGED <<cacheVars, bookmarkVars, extVars>>

\* cacheAyahs(b) again, with the same array.
IdemSecond ==
  /\ idemCalls = 1
  /\ idemStore' = cacheAyahs(idemStore, idemArg)
  /\ idemCalls' = 2
  /\ UNCHANGED <<idemArg, idemOnce, cacheVars, bookmarkVars, extVars>>

\* The store is cleared (clearDownloads) and another batch is tried.
IdemClear ==
  /\ idemCalls = 2
  /\ idemStore' = {}
  /\ idemArg' = <<>>
  /\ idemOnce' = {}
  /\ idemCalls' = 0
  /\ UNCHANGED <<cacheVars, bookmarkVars, extVars>>

NextIdem ==
  \/ \E b \in IdemBatches : IdemSeed(b)
  \/ \E b \in IdemBatches : IdemFirst(b)
  \/ IdemSecond
  \/ IdemClear

\* ------------------------------------------------------------- bookmarks
\* A bookmark; the primary key is [surahNumber, ayahNumber].
BookmarkKeys == [surahNumber : {BookmarkSurah}, ayahNumber : 1..MaxBookmarkAyah]

Times == 0..MaxClock

Bookmarks == [surahNumber : {BookmarkSurah}, ayahNumber : 1..MaxBookmarkAyah, timestamp : Times]

BookmarkKey(b) == [surahNumber |-> b.surahNumber, ayahNumber |-> b.ayahNumber]

NoImport == [op |-> "none", code |-> "", before |-> {}]

InitBookmarks ==
  /\ bookmarks = {}
  /\ now = 0
  /\ lastAdd = <<>>
  /\ lastImport = NoImport

\* store.put(bookmark) keeps every record it is handed.
PutAppend(store, b) == store \cup {b}

\* putToStore: store.put(bookmark), an upsert by primary key.
putToStore(store, b) == {r \in store : BookmarkKey(r) # BookmarkKey(b)} \cup {b}

\* deleteFromStore: store.delete(key)
deleteFromStore(store, k) == {r \in store : BookmarkKey(r) # k}

\* store.add(bookmark) for each validated bookmark, after store.clear(): an
\* add of a key that is present fails its request.
RECURSIVE AddAll(_, _)
AddAll(store, list) ==
  IF list = <<>> THEN [ok |-> TRUE, store |-> store]
  ELSE IF \E r \in store : BookmarkKey(r) = BookmarkKey(Head(list))
       THEN [ok |-> FALSE, store |-> store]
       ELSE AddAll(store \cup {Head(list)}, Tail(list))

\* A timestamp text that is no ISO datetime.
BadTimestamp == -1

\* z.string().datetime()
DatetimeOk(ts) == ts \in Times

\* BookmarkSchema
BookmarkSchemaOk(b) ==
  /\ b.surahNumber >= 1 /\ b.surahNumber <= SchemaMaxSurah
  /\ b.ayahNumber >= 1
  /\ DatetimeOk(b.timestamp)

\* What a bookmarks JSON file can hold: text that JSON.parse refuses, or a
\* { bookmarks: [...] } object whose entries may violate BookmarkSchema.
ImportRecords ==
  [surahNumber : {BookmarkSurah, SchemaMaxSurah + 1},
   ayahNumber : 1..MaxBookmarkAyah,
   timestamp : {MaxClock, BadTimestamp}]

Malformed == [wellFormed |-> FALSE, bookmarks |-> <<>>]

Json(list) == [wellFormed |-> TRUE, bookmarks |-> list]

JsonFiles == {Malformed} \cup {Json(l) : l \in SeqsUpTo(ImportRecords, MaxImport)}

\* validateBookmarks(JSON.parse(jsonData)) throws.
InvalidImport(json) ==
  \/ ~json.wellFormed
  \/ \E i \in 1..Len(json.bookmarks) : ~BookmarkSchemaOk(json.bookmarks[i])

\* importBookmarks(jsonData) whose failed transaction keeps what it wrote.
ImportWithoutRollback(store, json) ==
  IF InvalidImport(json) THEN [code |-> "E_INVALID_IMPORT", store |-> store]
  ELSE LET r == AddAll({}, json.bookmarks)
       IN  [code |-> IF r.ok THEN "ok" ELSE "E_IMPORT_FAILED", store |-> r.store]

\* importBookmarks(jsonData): the code the call settles with and the store it
\* leaves. Validation comes first; then one transaction clears the store and
\* adds every bookmark; a failed add aborts it, and the clear is undone with
\* the rest.
importBookmarks(store, json) ==
  IF InvalidImport(json) THEN [code |-> "E_INVALID_IMPORT", store |-> store]
  ELSE LET r == AddAll({}, json.bookmarks)
       IN  IF r.ok THEN [code |-> "ok", store |-> r.store]
           ELSE [code |-> "E_IMPORT_FAILED", store |-> store]

\* The records of the store in primary-key order, as getAll() lists them.
RECURSIVE BookmarkOrder(_)
BookmarkOrder(S) ==
  IF S = {} THEN <<>>
  ELSE LET m == CHOOSE r \in S : \A x \in S :
                  \/ r.surahNumber < x.surahNumber
                  \/ r.surahNumber = x.surahNumber /\ r.ayahNumber <= x.ayahNumber
       IN  <<m>> \o BookmarkOrder(S \ {m})

Reverse(s) == [i \in 1..Len(s) |-> s[Len(s) + 1 - i]]

\* getBookmarks(): all bookmarks, newest first (a stable sort of getAll()).
getBookmarks(store) == Reverse(SortAsc(Reverse(BookmarkOrder(store)), "timestamp"))

\* exportBookmarks() that writes the keys only.
ExportKeysOnly(store) ==
  Json([i \in 1..Len(getBookmarks(store)) |->
          [getBookmarks(store)[i] EXCEPT !.timestamp = 0]])

\* exportBookmarks(): JSON.stringify({ bookmarks })
exportBookmarks(store) == Json(getBookmarks(store))

\* addBookmark(surahNumber, ayahNumber)
AddBookmark(k) ==
  /\ bookmarks' = putToStore(bookmarks,
                    [surahNumber |-> k.surahNumber, ayahNumber |-> k.ayahNumber,
                     timestamp |-> now])
  /\ lastAdd' = <<[key |-> k, at |-> now,
                   replaced |-> {r.timestamp : r \in {x \in bookmarks : BookmarkKey(x) = k}}]>>
  /\ lastImport' = NoImport
  /\ UNCHANGED <<now, cacheVars, idemVars, extVars>>

\* removeBookmark(surahNumber, ayahNumber)
RemoveBookmark(k) ==
  /\ bookmarks' = deleteFromStore(bookmarks, k)
  /\ lastAdd' = <<>>
  /\ lastImport' = NoImport
  /\ UNCHANGED <<now, cacheVars, idemVars, extVars>>

\* importBookmarks(jsonData) on a file the user picked (handleImportJSON).
ImportBookmarks(json) ==
  /\ bookmarks' = importBookmarks(bookmarks, json).store
  /\ lastAdd' = <<>>
  /\ lastImport' = [op |-> "json", code |-> importBookmarks(bookmarks, json).code,
                    before |-> bookmarks]
  /\ UNCHANGED <<now, cacheVars, idemVars, extVars>>

\* importBookmarks(exportBookmarks())
RoundTrip ==
  /\ bookmarks' = importBookmarks(bookmarks, exportBookmarks(bookmarks)).store
  /\ lastAdd' = <<>>
  /\ lastImport' = [op |-> "roundtrip",
                    code |-> importBookmarks(bookmarks, exportBookmarks(bookmarks)).code,
                    before |-> bookmarks]
  /\ UNCHANGED <<now, cacheVars, idemVars, extVars>>

\* Time passes.
Tick ==
  /\ now < MaxClock
  /\ now' = now + 1
  /\ UNCHANGED <<bookmarks, lastAdd, lastImport, cacheVars, idemVars, extVars>>

NextBookmarks ==
  \/ \E k \in BookmarkKeys : AddBookmark(k)
  \/ \E k \in BookmarkKeys : RemoveBookmark(k)
  \/ \E json \in JsonFiles : ImportBookmarks(json)
  \/ RoundTrip
  \/ Tick

\* -------------------------------------------------------------- settings
\* A settings object maps every key to <<>> (the key is absent) or to <<v>>.
\* custom_note stands for the custom_* extension keys, notes for every other
\* key the schema does not name.
MinFontSizePx == 12
MaxFontSizePx == 48
DefaultFontSizePx == 24

SettingsKeys ==
  {"language", "showTranslations", "fontSizePx", "theme", "preferredReciter",
   "playbackSpeed", "custom_note", "notes"}

\* const defaultSettings
defaultSettings ==
  [language |-> <<"en">>, showTranslations |-> <<TRUE>>,
   fontSizePx |-> <<DefaultFontSizePx>>, theme |-> <<"light">>,
   preferredReciter |-> <<"ar.alafasy">>, playbackSpeed |-> <<1>>,
   custom_note |-> <<>>, notes |-> <<>>]

\* The objects updateSettings is called with and settings files hold.
SettingsInputs ==
  [language : {<<>>},
   showTranslations : {<<>>},
   fontSizePx : {<<>>, <<MinFontSizePx>>, <<MaxFontSizePx + 1>>},
   theme : {<<>>, <<"dark">>, <<"sepia">>},
   preferredReciter : {<<>>},
   playbackSpeed : {<<>>},
   custom_note : {<<>>, <<"a">>},
   notes : {<<>>, <<"x">>}]

Present(obj, k) == Len(obj[k]) > 0

\* { ...defaultSettings, ...partial }: the update is dropped.
MergeOverDefaults(current, partial) ==
  [k \in SettingsKeys |-> IF Present(partial, k) THEN partial[k] ELSE defaultSettings[k]]

\* { ...current, ...partial }
Merge(current, partial) ==
  [k \in SettingsKeys |-> IF Present(partial, k) THEN partial[k] ELSE current[k]]

\* SettingsSchema: ranges and enums of the named keys (an absent key takes
\* its default), and the refinement that every other key starts with custom_.
SettingsSchemaOk(obj) ==
  /\ Present(obj, "language") => obj.language[1] \in {"ar", "en", "ur"}
  /\ Present(obj, "showTranslations") => obj.showTranslations[1] \in BOOLEAN
  /\ Present(obj, "fontSizePx") =>
       (obj.fontSizePx[1] >= MinFontSizePx /\ obj.fontSizePx[1] <= MaxFontSizePx)
  /\ Present(obj, "theme") => obj.theme[1] \in {"light", "dark"}
  /\ Present(obj, "playbackSpeed") =>
       (2 * obj.playbackSpeed[1] >= 1 /\ obj.playbackSpeed[1] <= 2)
  /\ ~Present(obj, "notes")

\* validateSettings(data): the parsed object, defaults filled in.
validateSettings(obj) ==
  [k \in SettingsKeys |-> IF Present(obj, k) THEN obj[k] ELSE defaultSettings[k]]

\* getSettings()
getSettings(store) ==
  IF store = <<>> THEN defaultSettings ELSE Merge(defaultSettings, store[1])

\* updateSettings writes whatever it merged.
NeverRejects(updated) == FALSE

\* try { validateSettings(updated) } catch: throw E_INVALID_SETTINGS
RejectsUpdate(updated) == ~SettingsSchemaOk(updated)

\* updateSettings(settings): the code the call settles with, the store it leaves.
updateSettings(store, partial) ==
  LET updated == Merge(getSettings(store), partial)
  IN  IF RejectsUpdate(updated)
      THEN [code |-> "E_INVALID_SETTINGS", store |-> store]
      ELSE [code |-> "ok", store |-> <<updated>>]

\* The recoverable argument of the createError call that makes an error of
\* this code: false for the two E_INVALID_IMPORT calls, true everywhere else
\* (E_INVALID_SETTINGS included).
ErrorRecoverable(code) == code # "E_INVALID_IMPORT"

MalformedSettings == [wellFormed |-> FALSE, data |-> defaultSettings]

SettingsFiles ==
  {MalformedSettings} \cup {[wellFormed |-> TRUE, data |-> d] : d \in SettingsInputs}

\* importSettings(jsonData): every failure inside the try block, the one of
\* updateSettings included, is rethrown as E_INVALID_IMPORT.
importSettings(store, json) ==
  IF ~json.wellFormed \/ ~SettingsSchemaOk(json.data)
  THEN [code |-> "E_INVALID_IMPORT", store |-> store]
  ELSE LET r == updateSettings(store, validateSettings(json.data))
       IN  IF r.code = "ok" THEN r ELSE [code |-> "E_INVALID_IMPORT", store |-> store]

NoUpdate == [op |-> "none", code |-> "", before |-> <<>>, arg |-> defaultSettings]

InitSettings ==
  /\ settingsStore = <<>>
  /\ lastUpdate = NoUpdate

\* updateSettings(partial), as the settings mutation calls it
UpdateSettings(partial) ==
  /\ settingsStore' = updateSettings(settingsStore, partial).store
  /\ lastUpdate' = [op |-> "update", code |-> updateSettings(settingsStore, partial).code,
                    before |-> settingsStore, arg |-> partial]
  /\ UNCHANGED <<cacheVars, idemVars, bookmarkVars, searchVars, csvVars, fetchVars, engineVars, ayahVars, raceVars, hookVars, schemaVars>>

\* importSettings(text) on a file the user picked
ImportSettings(json) ==
  /\ settingsStore' = importSettings(settingsStore, json).store
  /\ lastUpdate' = [op |-> "import", code |-> importSettings(settingsStore, json).code,
                    before |-> settingsStore, arg |-> defaultSettings]
  /\ UNCHANGED <<cacheVars, idemVars, bookmarkVars, searchVars, csvVars, fetchVars, engineVars, ayahVars, raceVars, hookVars, schemaVars>>

NextSettings ==
  \/ \E partial \in SettingsInputs : UpdateSettings(partial)
  \/ \E json \in SettingsFiles : ImportSettings(json)

\* Imports of bookmarks and of settings.
NextImport ==
  \/ \E k \in BookmarkKeys : AddBookmark(k)
  \/ \E json \in JsonFiles : ImportBookmarks(json)
  \/ \E json \in SettingsFiles : ImportSettings(json)

\* ---------------------------------------------------------------- search
\* Texts are sequences of characters; a text field is <<>> when the verse
\* has none (undefined) and <<text>> otherwise.
MaxQuery == 2
MaxSearched == 2
MaxInFlight == 2

QueryChars == {"b", "B", " "}

SearchTexts == {<<>>, <<<<"b">>>>, <<<<"a", "B">>>>}

SearchAyahs ==
  [globalAyahNumber : 1..MaxGlobal, arabicText : {<<<<"a">>>>, <<<<"b">>>>},
   englishText : SearchTexts, urduText : SearchTexts]

\* String.prototype.toLowerCase
LowerChar(c) == IF c = "B" THEN "b" ELSE c

toLowerCase(s) == [i \in 1..Len(s) |-> LowerChar(s[i])]

\* String.prototype.trim
RECURSIVE trim(_)
trim(s) ==
  IF s = <<>> THEN s
  ELSE IF Head(s) = " " THEN trim(Tail(s))
  ELSE IF s[Len(s)] = " " THEN trim(SubSeq(s, 1, Len(s) - 1))
  ELSE s

\* String.prototype.includes
includes(s, q) ==
  \E i \in 0..(Len(s) - Len(q)) : SubSeq(s, i + 1, i + Len(q)) = q

\* The search reads the English text whatever the language.
EnglishOnly(ayah, language) == ayah.englishText

\* language === 'en' ? ayah.englishText : ayah.urduText
SearchedText(ayah, language) ==
  IF language = "en" THEN ayah.englishText ELSE ayah.urduText

RECURSIVE SelectSeq2(_, _, _)
SelectSeq2(s, q, language) ==
  IF s = <<>> THEN <<>>
  ELSE LET text == SearchedText(Head(s), language)
           keep == text # <<>> /\ includes(toLowerCase(text[1]), q)
       IN  (IF keep THEN <<Head(s)>> ELSE <<>>) \o SelectSeq2(Tail(s), q, language)

\* searchAyahs(ayahs, query, language)
searchAyahs(ayahs, query, language) ==
  LET normalizedQuery == trim(toLowerCase(query))
  IN  IF normalizedQuery = <<>> THEN <<>>
      ELSE SortAsc(SelectSeq2(ayahs, normalizedQuery, language), "globalAyahNumber")

InitSearch == searchCall = <<>>

\* One call of searchAyahs.
Search(ayahs, query, language) ==
  /\ searchCall = <<>>
  /\ searchCall' = <<[ayahs |-> ayahs, query |-> query, language |-> language,
                      results |-> searchAyahs(ayahs, query, language)]>>
  /\ UNCHANGED <<cacheVars, idemVars, bookmarkVars, settingsVars, csvVars, fetchVars, engineVars, ayahVars, raceVars, hookVars, schemaVars>>

NextSearch ==
  /\ searchCall = <<>>
  /\ \E ayahs \in SeqsUpTo(SearchAyahs, MaxSearched) :
       \E query \in SeqsUpTo(QueryChars, MaxQuery) :
         \E language \in {"en", "ur"} : Search(ayahs, query, language)

\* ------------------------------------------------------------ CSV import
CsvMaxSurah == 114
CsvMaxAyah == 286

\* parts[2] is missing: the row has no timestamp field.
NoTimestamp == -2

\* A data row after parseInt(parts[0]) || 0, parseInt(parts[1]) || 0, parts[2].
CsvRows ==
  [surah : {BookmarkSurah, CsvMaxSurah + 1},
   verse : (1..MaxBookmarkAyah) \cup {CsvMaxAyah + 1},
   timestamp : {NoTimestamp, MaxClock, BadTimestamp}]

CsvFiles == [headerOk : BOOLEAN, rows : SeqsUpTo(CsvRows, MaxImport)]

\* csvToBookmarks pushes every row.
AnyRow(row) == TRUE

\* surahNumber in 1..114 and ayahNumber in 1..286
RowInRange(row) ==
  /\ ~(row.surah < 1 \/ row.surah > CsvMaxSurah)
  /\ ~(row.verse < 1 \/ row.verse > CsvMaxAyah)

\* The bookmark csvToBookmarks pushes for a row at time clock.
RowBookmark(row, clock) ==
  [surahNumber |-> row.surah, ayahNumber |-> row.verse,
   timestamp |-> IF row.timestamp = NoTimestamp THEN clock ELSE row.timestamp]

RECURSIVE ParseRows(_, _)
ParseRows(rows, clock) ==
  IF rows = <<>> THEN <<>>
  ELSE (IF RowInRange(Head(rows)) THEN <<RowBookmark(Head(rows), clock)>> ELSE <<>>)
         \o ParseRows(Tail(rows), clock)

\* csvToBookmarks(csv).bookmarks: nothing without data rows or with a wrong
\* header, else the rows that pass the two range checks.
csvToBookmarks(file, clock) ==
  IF Len(file.rows) = 0 \/ ~file.headerOk THEN <<>> ELSE ParseRows(file.rows, clock)

\* handleImportCSV: the outcome and the bookmarks store it leaves.
handleImportCSV(store, file, clock) ==
  LET parsedBookmarks == csvToBookmarks(file, clock)
  IN  IF Len(parsedBookmarks) = 0 THEN [code |-> "csv_error", store |-> store]
      ELSE importBookmarks(store, Json(parsedBookmarks))

InitCsv == csvCall = <<>>

\* The user picks a CSV file to import.
CsvImport(file) ==
  /\ csvCall = <<>>
  /\ csvCall' = <<file>>
  /\ bookmarks' = handleImportCSV(bookmarks, file, now).store
  /\ lastAdd' = <<>>
  /\ lastImport' = [op |-> "csv", code |-> handleImportCSV(bookmarks, file, now).code,
                    before |-> bookmarks]
  /\ UNCHANGED <<now, cacheVars, idemVars, settingsVars, searchVars, fetchVars, engineVars, ayahVars, raceVars, hookVars, schemaVars>>

CsvImportOnce ==
  /\ csvCall = <<>>
  /\ \E file \in CsvFiles : CsvImport(file)

NextCsv ==
  \/ \E k \in BookmarkKeys : AddBookmark(k)
  \/ Tick
  \/ CsvImportOnce

\* ----------------------------------------------- the fetcher's editions
\* What one edition request can come to: the fetch rejects ("transport"), the
\* status is not 2xx ("status"), the body is no JSON ("unparsable"), the
\* JSON has another shape ("shape"), or it lists verses. For the Arabic
\* edition "badverse" is a well-shaped answer with a verse AyahSchema refuses.
EditionFailures == {"transport", "status", "unparsable", "shape"}

ArabicAnswers ==
  {[kind |-> k, ayahs |-> <<>>] : k \in EditionFailures \cup {"badverse"}}
    \cup {[kind |-> "ok", ayahs |-> r] : r \in ApiResponses}

\* An optional edition lists, in its own order, the text (or audio) of the
\* verses; a text is named by the numberInSurah of the verse it belongs to.
OptionalAnswers ==
  {[kind |-> k, ayahs |-> <<>>] : k \in EditionFailures}
    \cup {[kind |-> "ok", ayahs |-> r] : r \in SeqsUpTo(1..MaxAyah, MaxBatch)}

FetchOk(ayahs) == [kind |-> "ok", ayahs |-> ayahs, code |-> "", recoverable |-> FALSE]

\* Every failure reported as a failed API call.
ApiFetchError(code) == [kind |-> "err", ayahs |-> <<>>, code |-> "E_API_FETCH", recoverable |-> TRUE]

\* createError(code, message, details, true)
FetchError(code) == [kind |-> "err", ayahs |-> <<>>, code |-> code, recoverable |-> TRUE]

\* data.ayahs[index] of an optional edition: <<>> when the request was not
\* ok, safeParse failed or the list is shorter.
EditionField(edition, index) ==
  IF edition.kind = "ok" /\ index <= Len(edition.ayahs) THEN <<edition.ayahs[index]>> ELSE <<>>

\* normalizeAyah with the optional texts. (audioUrl || apiAyah.audio falls back
\* to the audio of the Arabic entry itself, which the entries here do not carry.)
normalizeAyahTexts(apiAyah, surahNumber, englishText, urduText, audioUrl) ==
  [surahNumber |-> surahNumber,
   ayahNumber |-> apiAyah.numberInSurah,
   globalAyahNumber |-> apiAyah.number,
   englishText |-> englishText,
   urduText |-> urduText,
   audioUrl |-> audioUrl]

\* fetchSurah returns the verses in the order of the Arabic edition.
Unsorted(ayahs) == ayahs

\* ayahs.sort((a, b) => a.ayahNumber - b.ayahNumber)
SortByAyahNumber(ayahs) == SortAsc(ayahs, "ayahNumber")

\* Promise.all over the requests (or over their json()): one of them ends this way.
SomeEdition(editions, kind) == \E i \in 1..Len(editions) : editions[i].kind = kind

\* The way fetchSurah ends, given what the four edition requests come to.
fetchSurahEditions(surahNumber, ar, en, ur, au) ==
  IF SomeEdition(<<ar, en, ur, au>>, "transport") THEN FetchError("E_NETWORK")
  ELSE IF ar.kind = "status" THEN FetchError("E_API_FETCH")
  ELSE IF SomeEdition(<<ar, en, ur, au>>, "unparsable") THEN FetchError("E_NETWORK")
  ELSE IF ar.kind \in {"shape", "badverse"} THEN FetchError("E_NETWORK")
  ELSE FetchOk(SortByAyahNumber(
         [i \in 1..Len(ar.ayahs) |->
            normalizeAyahTexts(ar.ayahs[i], surahNumber, EditionField(en, i),
                               EditionField(ur, i), EditionField(au, i))]))

\* The way fetchAyah ends: the same with three requests and one verse.
fetchAyah(surahNumber, ar, en, ur) ==
  IF SomeEdition(<<ar, en, ur>>, "transport") THEN FetchError("E_NETWORK")
  ELSE IF ar.kind = "status" THEN FetchError("E_API_FETCH")
  ELSE IF SomeEdition(<<ar, en, ur>>, "unparsable") THEN FetchError("E_NETWORK")
  ELSE IF ar.kind \in {"shape", "badverse"} THEN FetchError("E_NETWORK")
  ELSE FetchOk(<<normalizeAyahTexts(ar.ayahs[1], surahNumber, EditionField(en, 1),
                                    EditionField(ur, 1), <<>>)>>)

SingleAnswers(answers) == {a \in answers : a.kind = "ok" => Len(a.ayahs) = 1}

\* fetchAyah requests no audio edition.
NoEdition == [kind |-> "none", ayahs |-> <<>>]

InitFetch == fetchCall = <<>>

\* One fetchSurah call.
FetchSurah(ar, en, ur, au) ==
  /\ fetchCall = <<>>
  /\ fetchCall' = <<[op |-> "fetchSurah", ar |-> ar, en |-> en, ur |-> ur, au |-> au,
                     result |-> fetchSurahEditions(1, ar, en, ur, au)]>>
  /\ UNCHANGED <<cacheVars, idemVars, bookmarkVars, settingsVars, searchVars, csvVars, engineVars, ayahVars, raceVars, hookVars, schemaVars>>

\* One fetchAyah call.
FetchAyah(ar, en, ur) ==
  /\ fetchCall = <<>>
  /\ fetchCall' = <<[op |-> "fetchAyah", ar |-> ar, en |-> en, ur |-> ur, au |-> NoEdition,
                     result |-> fetchAyah(1, ar, en, ur)]>>
  /\ UNCHANGED <<cacheVars, idemVars, bookmarkVars, settingsVars, searchVars, csvVars, engineVars, ayahVars, raceVars, hookVars, schemaVars>>

FetchSurahOnce ==
  /\ fetchCall = <<>>
  /\ \E ar \in ArabicAnswers : \E en \in OptionalAnswers :
       \E ur \in OptionalAnswers : \E au \in OptionalAnswers : FetchSurah(ar, en, ur, au)

FetchAyahOnce ==
  /\ fetchCall = <<>>
  /\ \E ar \in SingleAnswers(ArabicAnswers) : \E en \in SingleAnswers(OptionalAnswers) :
       \E ur \in SingleAnswers(OptionalAnswers) : FetchAyah(ar, en, ur)

NextFetch ==
  \/ FetchSurahOnce
  \/ FetchAyahOnce

\* ------------------------------------------- store operations and the engine
\* The exported store operations and the IndexedDB transactions each one runs,
\* in order: a get or getAll request, a put request, a delete request, the
\* batch of puts of cacheAyahs, the clear-and-add transaction of importBookmarks.
Transactions ==
  [getCachedSurah |-> <<"getAll">>,
   getCachedAyah |-> <<"get">>,
   getAllCachedAyahs |-> <<"getAll">>,
   cacheAyahs |-> <<"batch">>,
   addBookmark |-> <<"put">>,
   removeBookmark |-> <<"delete">>,
   getBookmarks |-> <<"getAll">>,
   isBookmarked |-> <<"get">>,
   getSettings |-> <<"get">>,
   updateSettings |-> <<"get", "put">>,
   exportBookmarks |-> <<"getAll">>,
   importBookmarks |-> <<"import">>,
   importSettings |-> <<"get", "put">>,
   setCacheTimestamp |-> <<"put">>,
   getCacheTimestamp |-> <<"get">>]

StoreOps == DOMAIN Transactions

\* What the engine does with one transaction: indexedDB.open fails before it
\* starts, one of its requests fails (the error event bubbles to the
\* transaction), every request succeeds but the commit fails (the transaction
\* fires abort and no error event), or it completes.
EngineEvents == {"open_error", "request_error", "commit_abort", "complete"}

Fulfilled == [state |-> "resolved", code |-> "", recoverable |-> FALSE]

NeverSettles == [state |-> "pending", code |-> "", recoverable |-> FALSE]

RejectedWith(code) == [state |-> "rejected", code |-> code, recoverable |-> ErrorRecoverable(code)]

\* The code of the createError call in the onerror handler of a transaction.
RequestErrorCode(kind) ==
  CASE kind \in {"get", "getAll"} -> "E_DB_READ"
    [] kind \in {"put", "batch"} -> "E_DB_WRITE"
    [] kind = "delete" -> "E_DB_DELETE"
    [] kind = "import" -> "E_IMPORT_FAILED"

\* The promise of a single request resolves in request.onsuccess, before the
\* commit. cacheAyahs and importBookmarks wait for transaction.oncomplete and
\* reject in transaction.onerror: they have no onabort handler.
WaitsForComplete(kind) == kind \in {"batch", "import"}

\* How the promise around one transaction ends.
Transaction(kind, event) ==
  IF event = "open_error" THEN RejectedWith("E_DB_INIT")
  ELSE IF event = "request_error" THEN RejectedWith(RequestErrorCode(kind))
  ELSE IF event = "commit_abort" /\ WaitsForComplete(kind) THEN NeverSettles
  ELSE Fulfilled

\* The transactions of an operation one after the other; the first that does
\* not resolve ends the operation.
RunTransactions(kinds, events) ==
  LET first == Transaction(kinds[1], events[1])
  IN  IF Len(kinds) = 1 \/ first # Fulfilled THEN first
      ELSE Transaction(kinds[2], events[2])

\* catch (e) { throw createError('E_INVALID_IMPORT', ..., e, false) }: in
\* importSettings around everything awaited, in importBookmarks around initDB
\* (the promise of the transaction is returned without await).
CaughtByImport(op, outcome) ==
  IF /\ outcome.state = "rejected"
     /\ \/ op = "importSettings"
        \/ op = "importBookmarks" /\ outcome.code = "E_DB_INIT"
  THEN RejectedWith("E_INVALID_IMPORT")
  ELSE outcome

\* How the promise of store operation op ends under these engine events.
StoreOperation(op, events) == CaughtByImport(op, RunTransactions(Transactions[op], events))

\* The events the engine can produce for op: indexedDB.open is called only
\* while db is null; a second transaction runs only after the first resolved.
EventsOf(op, opened) ==
  {ev \in [1..Len(Transactions[op]) -> EngineEvents] :
     /\ ev[1] = "open_error" => ~opened
     /\ Len(ev) = 2 => /\ ev[2] # "open_error"
                       /\ Transaction(Transactions[op][1], ev[1]) # Fulfilled => ev[2] = "complete"}

InitEngine ==
  /\ db = FALSE
  /\ engineCall = <<>>

\* One call of a store operation.
StoreCall(op, events) ==
  /\ db' = (db \/ events[1] # "open_error")
  /\ engineCall' = <<[op |-> op, events |-> events, outcome |-> StoreOperation(op, events)]>>
  /\ UNCHANGED <<cacheVars, idemVars, bookmarkVars, settingsVars, searchVars, csvVars, fetchVars, ayahVars, raceVars, hookVars, schemaVars>>

\* The page is reloaded: the module starts again with db = null.
Reload ==
  /\ db
  /\ db' = FALSE
  /\ UNCHANGED engineCall
  /\ UNCHANGED <<cacheVars, idemVars, bookmarkVars, settingsVars, searchVars, csvVars, fetchVars, ayahVars, raceVars, hookVars, schemaVars>>

NextEngine ==
  \/ \E op \in StoreOps : \E events \in EventsOf(op, db) : StoreCall(op, events)
  \/ Reload

\* ------------------------------------------------------- useAyah queryFn
InitAyah ==
  /\ ayahCall = <<>>
  /\ fetchedAyahs = {}

\* surahAyahs.find(a => a.ayahNumber === ayahNumber)
FindAyah(surahAyahs, ayahNumber) ==
  \E i \in 1..Len(surahAyahs) : surahAyahs[i].ayahNumber = ayahNumber

\* The query function of useAyah(s, a), start to end: read the cached surah,
\* return the verse when it is there, otherwise return fetchAyah(s, a), which
\* resolves or rejects with `answer`. Nothing is written to the store.
GetAyah(s, a, answer) ==
  /\ txn = NoTxn
  /\ LET hit == FindAyah(getCachedSurah(ayahStore, s), a) IN
       /\ ayahCall' = <<[surahNumber |-> s, ayahNumber |-> a,
                         netCall |-> ~hit,
                         kind |-> IF hit THEN "ok" ELSE answer,
                         again |-> <<s, a>> \in fetchedAyahs]>>
       /\ fetchedAyahs' = IF ~hit /\ answer = "ok" THEN fetchedAyahs \cup {<<s, a>>}
                          ELSE fetchedAyahs
  /\ UNCHANGED <<cacheVars, idemVars, bookmarkVars, settingsVars, searchVars, csvVars,
                 fetchVars, engineVars, raceVars, hookVars, schemaVars>>

\* A surah is stored by one of the callers of cacheAyahs (query, refresh,
\* download), start to end.
StoreSurah(n, resp) ==
  /\ txn = NoTxn
  /\ ayahStore' = cacheAyahs(ayahStore, fetchSurah(n, resp))
  /\ committed' = ayahStore'
  /\ UNCHANGED <<online, txn, torn, taskVars, queryVars>>
  /\ UNCHANGED <<idemVars, bookmarkVars, extVars>>

NextAyah ==
  \/ \E n \in Surahs, resp \in ApiResponses : StoreSurah(n, resp)
  \/ \E s \in Surahs, a \in 1..MaxAyah, answer \in {"ok"} \cup FetchErrors : GetAyah(s, a, answer)

\* ------------------------------------------- updateSettings, step by step
\* The callers that can have an updateSettings call under way at once (the
\* settings page and the reader's controls).
Updaters == {1, 2}

\* The partial updates the callers pass.
UpdateInputs == {p \in SettingsInputs : p.custom_note = <<>> /\ p.notes = <<>>}

Idle == [pc |-> "idle", partial |-> defaultSettings, current |-> defaultSettings]

InitRace == updaters = [c \in Updaters |-> Idle]

\* const current = await getSettings(): a readonly transaction of its own.
UpdateRead(c, partial) ==
  /\ updaters[c].pc = "idle"
  /\ updaters' = [updaters EXCEPT ![c] =
                    [pc |-> "read", partial |-> partial, current |-> getSettings(settingsStore)]]
  /\ UNCHANGED <<cacheVars, idemVars, bookmarkVars, settingsVars, searchVars, csvVars,
                 fetchVars, engineVars, ayahVars, hookVars, schemaVars>>

\* The rest of the call: merge what was read with the argument, validate,
\* and put the merged record in a readwrite transaction of its own.
UpdateWrite(c) ==
  /\ updaters[c].pc = "read"
  /\ LET updated == Merge(updaters[c].current, updaters[c].partial) IN
       IF RejectsUpdate(updated)
       THEN /\ updaters' = [updaters EXCEPT ![c].pc = "failed"]
            /\ UNCHANGED settingsStore
       ELSE /\ updaters' = [updaters EXCEPT ![c].pc = "done"]
            /\ settingsStore' = <<updated>>
  /\ UNCHANGED lastUpdate
  /\ UNCHANGED <<cacheVars, idemVars, bookmarkVars, searchVars, csvVars,
                 fetchVars, engineVars, ayahVars, hookVars, schemaVars>>

\* The caller goes on after the call has settled.
UpdateReturn(c) ==
  /\ updaters[c].pc \in {"done", "failed"}
  /\ updaters' = [updaters EXCEPT ![c] = Idle]
  /\ UNCHANGED <<cacheVars, idemVars, bookmarkVars, settingsVars, searchVars, csvVars,
                 fetchVars, engineVars, ayahVars, hookVars, schemaVars>>

NextRace ==
  \/ \E c \in Updaters, partial \in UpdateInputs : UpdateRead(c, partial)
  \/ \E c \in Updaters : UpdateWrite(c)
  \/ \E c \in Updaters : UpdateReturn(c)

\* ------------------------------------------------------------- useSearch
\* The queries typed into the search box and the two languages.
HookQueries == {<<>>, <<" ">>, <<"b">>, <<"B">>}

HookLanguages == {"en", "ur"}

\* results is null (<<>>) or the SearchResults of one performSearch call,
\* named by the query and the language it was computed for.
InitHook ==
  searchHook = [query |-> <<>>, language |-> "en", results |-> <<>>,
                isSearching |-> FALSE, inflight |-> <<>>, latest |-> <<>>]

\* performSearch(searchQuery, searchLanguage) up to its await: a blank query
\* sets results to null and returns; otherwise isSearching is set and the
\* call waits for getAllCachedAyahs().
performSearch(hook, searchQuery, searchLanguage) ==
  LET call == [query |-> searchQuery, language |-> searchLanguage]
  IN  IF trim(searchQuery) = <<>>
      THEN [hook EXCEPT !.results = <<>>, !.latest = <<call>>]
      ELSE [hook EXCEPT !.isSearching = TRUE,
                        !.inflight = Append(hook.inflight, call),
                        !.latest = <<call>>]

\* search(searchQuery)
SearchFor(searchQuery) ==
  /\ Len(searchHook.inflight) < MaxInFlight
  /\ searchHook' = performSearch([searchHook EXCEPT !.query = searchQuery],
                                 searchQuery, searchHook.language)
  /\ UNCHANGED <<cacheVars, idemVars, bookmarkVars, settingsVars, searchVars, csvVars,
                 fetchVars, engineVars, ayahVars, raceVars, schemaVars>>

\* changeLanguage(newLanguage)
ChangeLanguage(newLanguage) ==
  /\ Len(searchHook.inflight) < MaxInFlight
  /\ searchHook' = IF searchHook.query # <<>>
                   THEN performSearch([searchHook EXCEPT !.language = newLanguage],
                                      searchHook.query, newLanguage)
                   ELSE [searchHook EXCEPT !.language = newLanguage]
  /\ UNCHANGED <<cacheVars, idemVars, bookmarkVars, settingsVars, searchVars, csvVars,
                 fetchVars, engineVars, ayahVars, raceVars, schemaVars>>

\* clearSearch()
ClearSearch ==
  /\ searchHook' = [searchHook EXCEPT !.query = <<>>, !.results = <<>>, !.latest = <<>>]
  /\ UNCHANGED <<cacheVars, idemVars, bookmarkVars, settingsVars, searchVars, csvVars,
                 fetchVars, engineVars, ayahVars, raceVars, schemaVars>>

\* The oldest performSearch call in flight gets its verses (the reads are
\* taken to finish in the order they were issued): setResults, and in the
\* finally block setIsSearching(false).
SearchDone ==
  /\ searchHook.inflight # <<>>
  /\ searchHook' = [searchHook EXCEPT !.results = <<Head(searchHook.inflight)>>,
                                      !.isSearching = FALSE,
                                      !.inflight = Tail(searchHook.inflight)]
  /\ UNCHANGED <<cacheVars, idemVars, bookmarkVars, settingsVars, searchVars, csvVars,
                 fetchVars, engineVars, ayahVars, raceVars, schemaVars>>

\* getAllCachedAyahs() rejects: only the finally block runs.
SearchFailed ==
  /\ searchHook.inflight # <<>>
  /\ searchHook' = [searchHook EXCEPT !.isSearching = FALSE,
                                      !.inflight = Tail(searchHook.inflight)]
  /\ UNCHANGED <<cacheVars, idemVars, bookmarkVars, settingsVars, searchVars, csvVars,
                 fetchVars, engineVars, ayahVars, raceVars, schemaVars>>

NextHook ==
  \/ \E q \in HookQueries : SearchFor(q)
  \/ \E l \in HookLanguages : ChangeLanguage(l)
  \/ ClearSearch
  \/ SearchDone
  \/ SearchFailed

\* ------------------------------------------- the write paths and AyahSchema
\* A verse as the Arabic edition can send it: numbers, a juz and a text that
\* may lie outside what the schemas accept. "<b>" is markup without text.
RawTexts == {"a", "<b>"}

RawAyahs ==
  [numberInSurah : 1..MaxAyah,
   number : (1..MaxGlobal) \cup {SchemaMaxGlobal + 1},
   text : RawTexts,
   juz : {1, SchemaMaxJuz + 1}]

RawResponses == SeqsUpTo(RawAyahs, MaxBatch)

\* The surah numbers a write path is run for: route parameters and the
\* download list.
RequestedSurahs == {1, SchemaMaxSurah + 1}

\* The callers of cacheAyahs.
WritePaths == {"query", "refresh", "downloadSurah", "downloadAll", "handleDownload"}

\* sanitizeText(text): tags are stripped, the rest is trimmed.
sanitizeText(text) == IF text = "<b>" THEN "" ELSE text

\* ApiAyahResponseSchema
ApiAyahSchemaOk(raw) ==
  /\ raw.number >= 1
  /\ raw.numberInSurah >= 1
  /\ raw.text # ""
  /\ raw.juz >= 1
  /\ raw.juz <= SchemaMaxJuz

\* normalizeAyah before its AyahSchema.parse
NormalizedAyah(raw, surahNumber) ==
  [surahNumber |-> surahNumber,
   ayahNumber |-> raw.numberInSurah,
   globalAyahNumber |-> raw.number,
   arabicText |-> sanitizeText(raw.text),
   juzNumber |-> raw.juz]

\* normalizeAyah returns what it built without parsing it.
AyahSchemaSkipped(a) == TRUE

\* AyahSchema.parse(normalized) does not throw.
AyahSchemaOk(a) ==
  /\ a.surahNumber >= 1
  /\ a.surahNumber <= SchemaMaxSurah
  /\ a.ayahNumber >= 1
  /\ a.globalAyahNumber >= 1
  /\ a.globalAyahNumber <= SchemaMaxGlobal
  /\ a.arabicText # ""
  /\ a.juzNumber >= 1
  /\ a.juzNumber <= SchemaMaxJuz

\* fetchSurah on an Arabic edition that answered with these verses: both
\* schemas are applied, and a verse one of them refuses fails the whole call.
fetchSurahChecked(surahNumber, resp) ==
  IF \E i \in 1..Len(resp) : ~ApiAyahSchemaOk(resp[i]) THEN FetchError("E_NETWORK")
  ELSE LET list == [i \in 1..Len(resp) |-> NormalizedAyah(resp[i], surahNumber)]
       IN  IF \E i \in 1..Len(list) : ~AyahSchemaOk(list[i]) THEN FetchError("E_NETWORK")
           ELSE FetchOk(SortByAyahNumber(list))

InitSchema ==
  /\ schemaStore = {}
  /\ schemaCall = <<>>
  /\ requestedSurahs = {}

\* One write path, start to end: fetchSurah(n), then cacheAyahs on what it
\* returned (handleDownload stores the array the query returned, which came
\* from fetchSurah or from the store).
WriteVerses(path, n, resp) ==
  /\ LET r == fetchSurahChecked(n, resp) IN
       /\ schemaStore' = IF r.kind = "ok" THEN cacheAyahs(schemaStore, r.ayahs) ELSE schemaStore
       /\ schemaCall' = <<[path |-> path, surahNumber |-> n, kind |-> r.kind,
                           upstreamOk |-> \A i \in 1..Len(resp) : ApiAyahSchemaOk(resp[i])]>>
  /\ requestedSurahs' = requestedSurahs \cup {n}
  /\ UNCHANGED <<cacheVars, idemVars, bookmarkVars, settingsVars, searchVars, csvVars,
                 fetchVars, engineVars, ayahVars, raceVars, hookVars>>

NextSchema ==
  \E path \in WritePaths, n \in RequestedSurahs, resp \in RawResponses : WriteVerses(path, n, resp)

\* --------------------------------------------------------- specifications
Init == InitCache /\ InitIdem /\ InitBookmarks /\ InitSettings /\ InitSearch /\ InitCsv /\ InitFetch /\ InitEngine /\ InitAyah /\ InitRace /\ InitHook /\ InitSchema

Spec == Init /\ [][Next]_vars

SpecStore == Init /\ [][NextStore]_vars

SpecIdem == Init /\ [][NextIdem]_vars

SpecBookmarks == Init /\ [][NextBookmarks]_vars

SpecSettings == Init /\ [][NextSettings]_vars

SpecImport == Init /\ [][NextImport]_vars

SpecSearch == Init /\ [][NextSearch]_vars

SpecCsv == Init /\ [][NextCsv]_vars

SpecFetch == Init /\ [][NextFetch]_vars

SpecEngine == Init /\ [][NextEngine]_vars

SpecAyah == Init /\ [][NextAyah]_vars

SpecRace == Init /\ [][NextRace]_vars

SpecHook == Init /\ [][NextHook]_vars

SpecSchema == Init /\ [][NextSchema]_vars

\* ------------------------------------------------------------------ claims
\* The step in which the query function of surah n gets the answer of its
\* getCachedSurah read, the read itself having succeeded.
ReadAnswered(n) ==
  /\ pc[fg(n)] = "reading"
  /\ pc'[fg(n)] # "reading"
  /\ result'[n] # Err("E_DB_READ")

\* C1: when the store holds a verse of surah n as the query function reads
\* it, the query returns exactly the cached verses, whatever its isOffline
\* flag, and what it returned stays what it is (never E_NETWORK, never any
\* other error) whatever the background refresh does afterwards.
C1_OfflineGuarantee ==
  [][\A n \in Queried :
       /\ (ReadAnswered(n) /\ isSurahCached(ayahStore, n))
            => /\ pc'[fg(n)] = "done"
               /\ result'[n] = Ok(getCachedSurah(ayahStore, n))
       /\ (pc[fg(n)] = "done" /\ pc'[fg(n)] = "done") => result'[n] = result[n]
       /\ (pc[fg(n)] = "reading" /\ isSurahCached(ayahStore, n))
            => result'[n].code \notin FetchErrors]_vars

C1_Witness ==
  \E n \in Queried :
    /\ pc[fg(n)] = "done"
    /\ isOffline[n]
    /\ result[n].kind = "ok"
    /\ Len(result[n].ayahs) > 0

\* C2: when the store holds no verse of surah n as the query function reads
\* it and the isOffline flag is set, the query fails with the 'No cached data
\* available offline' error and has started no fetchSurah call.
C2_OfflineMissFails ==
  [][\A n \in Queried :
       (ReadAnswered(n) /\ ~isSurahCached(ayahStore, n) /\ isOffline[n])
         => /\ pc'[fg(n)] = "done"
            /\ result'[n] = Err(NoCacheOffline)
            /\ ~netCall'[n]
            /\ pc'[bg(n)] # "fetching"]_vars

C2_Witness ==
  \E n \in Queried :
    /\ pc[fg(n)] = "done"
    /\ isOffline[n]
    /\ result[n] = Err(NoCacheOffline)
    /\ ~netCall[n]
    /\ \E r \in ayahStore : r.surahNumber # n

\* C3: no failure of the background refresh escapes as an unhandled error:
\* a failed fetchSurah, a failed cacheAyahs write and a failed
\* setCacheTimestamp write are all caught.
C3_RefreshFailuresCaught == UnhandledRejections = {}

\* The verses of batch b that cacheAyahs(b) leaves in the store: for every
\* key, the last verse of b with that key.
LastPuts(b) ==
  {b[i] : i \in {j \in 1..Len(b) : \A k \in (j + 1)..Len(b) : AyahKey(b[k]) # AyahKey(b[j])}}

\* C4: on a cache miss while online the query returns the fetched verses only
\* after cacheAyahs has written all of them and its transaction has completed,
\* at which point getCachedSurah(n) returns them; when fetchSurah fails, the
\* query fails with the fetcher's error and the step changes neither the ayahs
\* store nor the cache-metadata table.
C4_MissPersistsBeforeReturn ==
  [][\A n \in Queried :
       /\ (pc[fg(n)] = "caching" /\ pc'[fg(n)] = "stamping")
            => /\ LastPuts(batch[fg(n)]) \subseteq ayahStore'
               /\ Range(getCachedSurah(ayahStore', n)) = LastPuts(batch[fg(n)])
               /\ txn' = NoTxn
       /\ (pc[fg(n)] \notin {"reading", "done"} /\ pc'[fg(n)] = "done"
             /\ result'[n].kind = "ok")
            => /\ pc[fg(n)] = "stamping"
               /\ written[fg(n)] = Len(batch[fg(n)])
               /\ result'[n].ayahs = batch[fg(n)]
               /\ ~isOffline[n]
       /\ (pc[fg(n)] = "fetching" /\ pc'[fg(n)] = "done")
            => /\ result'[n].kind = "err"
               /\ result'[n].code \in FetchErrors
               /\ ayahStore' = ayahStore
               /\ cacheMeta' = cacheMeta]_vars

C4_Witness ==
  \E n \in Queried :
    /\ pc[fg(n)] = "done"
    /\ ~isOffline[n]
    /\ result[n].kind = "ok"
    /\ Len(result[n].ayahs) = MaxBatch
    /\ result[n].ayahs = batch[fg(n)]
    /\ getCachedSurah(ayahStore, n) = result[n].ayahs
    /\ cacheMeta[n] = "fg"

C6_SurahContiguous ==
  txn = NoTxn =>
    \A n \in Surahs :
      LET s == getCachedSurah(ayahStore, n)
      IN  \A i \in 1..Len(s) : s[i].ayahNumber = i

\* C7: getAllCachedAyahs() returns every stored verse once, strictly
\* ascending by globalAyahNumber.
C7_AllAyahsByGlobal ==
  LET s == getAllCachedAyahs(ayahStore)
  IN  /\ Range(s) = ayahStore
      /\ Len(s) = Cardinality(ayahStore)
      /\ \A i \in 1..Len(s) : \A j \in 1..Len(s) :
           i < j => s[i].globalAyahNumber < s[j].globalAyahNumber

C7_Witness ==
  /\ Cardinality(ayahStore) >= 2
  /\ getAllCachedAyahs(ayahStore) # getAllCachedAyahsUnsorted(ayahStore)

\* C8: the store after cacheAyahs(A); cacheAyahs(A) is the store after the
\* first cacheAyahs(A).
C8_CacheIdempotent == idemCalls = 2 => idemStore = idemOnce

C8_Witness ==
  /\ idemCalls = 2
  /\ Len(idemArg) >= 2
  /\ LastPuts(idemArg) \subseteq idemStore
  /\ Cardinality(idemStore) > Cardinality(LastPuts(idemArg))

\* C9: cacheAyahs is all-or-nothing: no read has seen, and no failed call has
\* left, a store that differs from what the settled calls and clears made it,
\* and a call that has issued a put holds the store's transaction until it
\* settles, so that the puts of two calls never interleave.
C9_CacheAtomic ==
  /\ ~torn
  /\ \A t \in Downloaders : written[t] > 0 => txn.owner = t

C9_Witness ==
  \E t \in Downloaders : \E u \in Downloaders :
    /\ t # u
    /\ txn.owner = t
    /\ written[t] = 1
    /\ Len(batch[t]) = 2
    /\ pc[u] = "caching"
    /\ Len(batch[u]) = 2
    /\ batch[u][1].surahNumber = batch[t][1].surahNumber
    /\ ayahStore # committed

\* C10: the bookmarks store holds at most one bookmark per (surahNumber,
\* ayahNumber), and after addBookmark(s, a) the one bookmark of (s, a) carries
\* the timestamp of that call, also when (s, a) was bookmarked before.
C10_BookmarkUnique ==
  /\ \A b1 \in bookmarks : \A b2 \in bookmarks :
       BookmarkKey(b1) = BookmarkKey(b2) => b1 = b2
  /\ lastAdd # <<>> =>
       {b \in bookmarks : BookmarkKey(b) = lastAdd[1].key}
         = {[surahNumber |-> lastAdd[1].key.surahNumber,
             ayahNumber |-> lastAdd[1].key.ayahNumber,
             timestamp |-> lastAdd[1].at]}

C10_Witness ==
  /\ lastAdd # <<>>
  /\ \E old \in lastAdd[1].replaced : old < lastAdd[1].at
  /\ Cardinality(bookmarks) = MaxBookmarkAyah

\* C11: after importBookmarks(exportBookmarks()) the call has succeeded and
\* the bookmarks store holds exactly the bookmarks it held before, with the
\* same keys and the same timestamps.
C11_BookmarkRoundTrip ==
  lastImport.op = "roundtrip" =>
    /\ lastImport.code = "ok"
    /\ bookmarks = lastImport.before

C11_Witness ==
  /\ lastImport.op = "roundtrip"
  /\ Cardinality(bookmarks) = MaxBookmarkAyah
  /\ \E b1 \in bookmarks : \E b2 \in bookmarks : b1.timestamp < b2.timestamp

\* C12: an importBookmarks or importSettings call that fails (malformed JSON,
\* a schema violation, bookmarks that cannot be committed) leaves the
\* bookmarks store, respectively the settings store, as it was before the call.
C12_FailedImportKeepsStore ==
  /\ (lastImport.op = "json" /\ lastImport.code # "ok") => bookmarks = lastImport.before
  /\ (lastUpdate.op = "import" /\ lastUpdate.code # "ok") => settingsStore = lastUpdate.before

C12_Witness ==
  /\ lastImport.op = "json"
  /\ lastImport.code = "E_IMPORT_FAILED"
  /\ bookmarks # {}
  /\ lastUpdate.op = "import"
  /\ lastUpdate.code = "E_INVALID_IMPORT"
  /\ settingsStore # <<>>

\* C13: after a successful updateSettings(partial) every key partial names
\* has partial's value and every other key, a custom_* key included, has the
\* value getSettings() returned before the call.
C13_SettingsMerge ==
  (lastUpdate.op = "update" /\ lastUpdate.code = "ok") =>
    \A k \in SettingsKeys :
      getSettings(settingsStore)[k] =
        IF Present(lastUpdate.arg, k) THEN lastUpdate.arg[k]
        ELSE getSettings(lastUpdate.before)[k]

C13_Witness ==
  /\ lastUpdate.op = "update"
  /\ lastUpdate.code = "ok"
  /\ Present(lastUpdate.arg, "fontSizePx")
  /\ ~Present(lastUpdate.arg, "theme")
  /\ ~Present(lastUpdate.arg, "custom_note")
  /\ lastUpdate.before # <<>>
  /\ getSettings(lastUpdate.before).theme = <<"dark">>
  /\ getSettings(lastUpdate.before).custom_note = <<"a">>
  /\ getSettings(lastUpdate.before).fontSizePx # lastUpdate.arg.fontSizePx

\* C14: an updateSettings(partial) whose merge with the current settings
\* violates the settings schema is rejected with E_INVALID_SETTINGS and leaves
\* the settings store unchanged, and the stored settings satisfy the schema
\* in every state.
C14_SettingsValidated ==
  /\ settingsStore # <<>> => SettingsSchemaOk(settingsStore[1])
  /\ lastUpdate.op = "update" =>
       IF SettingsSchemaOk(Merge(getSettings(lastUpdate.before), lastUpdate.arg))
       THEN lastUpdate.code = "ok"
       ELSE lastUpdate.code = "E_INVALID_SETTINGS" /\ settingsStore = lastUpdate.before

C14_Witness ==
  /\ lastUpdate.op = "update"
  /\ lastUpdate.code = "E_INVALID_SETTINGS"
  /\ lastUpdate.before # <<>>
  /\ Present(lastUpdate.arg, "notes")
  /\ settingsStore = lastUpdate.before

\* C15: searchAyahs returns exactly the verses of its input whose text in the
\* field of the selected language contains the trimmed query, letter case
\* ignored, in ascending globalAyahNumber order; an empty or whitespace-only
\* query gives an empty array; the other language's text and the Arabic text
\* do not matter.
C15_SearchExact ==
  searchCall # <<>> =>
    LET c == searchCall[1]
        q == trim(toLowerCase(c.query))
        Field(a) == IF c.language = "en" THEN a.englishText ELSE a.urduText
        Match(a) ==
          /\ Field(a) # <<>>
          /\ \E i \in 0..(Len(Field(a)[1]) - Len(q)) :
               \A j \in 1..Len(q) : LowerChar(Field(a)[1][i + j]) = q[j]
        hits == {i \in 1..Len(c.ayahs) : Match(c.ayahs[i])}
    IN  IF q = <<>> THEN c.results = <<>>
        ELSE /\ Len(c.results) = Cardinality(hits)
             /\ Range(c.results) = {c.ayahs[i] : i \in hits}
             /\ \A a \in Range(c.results) :
                  Cardinality({i \in 1..Len(c.results) : c.results[i] = a})
                    = Cardinality({i \in hits : c.ayahs[i] = a})
             /\ \A i \in 1..Len(c.results) : \A j \in 1..Len(c.results) :
                  i < j => c.results[i].globalAyahNumber <= c.results[j].globalAyahNumber

C15_Witness ==
  /\ searchCall # <<>>
  /\ searchCall[1].language = "ur"
  /\ searchCall[1].query = <<" ", "B">>
  /\ Len(searchCall[1].ayahs) = 2
  /\ Len(searchCall[1].results) = 2
  /\ searchCall[1].results # searchCall[1].ayahs
  /\ \A i \in 1..2 : searchCall[1].ayahs[i].englishText = <<>>

\* C16: a CSV row whose surah number is outside 1..114 or whose ayah number
\* is outside 1..286 is never part of the imported bookmarks, and the import
\* of a file without a row inside both ranges fails and leaves the bookmarks
\* store as it was.
C16_CsvRejectsOutOfRange ==
  lastImport.op = "csv" =>
    LET rows == csvCall[1].rows
        InRange(i) ==
          /\ rows[i].surah \in 1..CsvMaxSurah
          /\ rows[i].verse \in 1..CsvMaxAyah
    IN  /\ lastImport.code = "ok" =>
             \A b \in bookmarks : \E i \in 1..Len(rows) :
               /\ InRange(i)
               /\ rows[i].surah = b.surahNumber
               /\ rows[i].verse = b.ayahNumber
        /\ (\A i \in 1..Len(rows) : ~InRange(i)) =>
             (lastImport.code # "ok" /\ bookmarks = lastImport.before)

C16_Witness ==
  /\ lastImport.op = "csv"
  /\ lastImport.code = "ok"
  /\ Len(csvCall[1].rows) = MaxImport
  /\ Cardinality(bookmarks) = 1
  /\ \E i \in 1..Len(csvCall[1].rows) : csvCall[1].rows[i].surah > CsvMaxSurah
  /\ lastImport.before # {}
  /\ lastImport.before # bookmarks

\* C17: whenever at least one row of a CSV file validates (numbers in range,
\* timestamp usable), the import succeeds and stores exactly the rows that
\* validate, whatever is wrong with the other rows.
C17_CsvSkipsInvalidRows ==
  lastImport.op = "csv" =>
    LET file == csvCall[1]
        Valid(i) ==
          /\ file.rows[i].surah \in 1..CsvMaxSurah
          /\ file.rows[i].verse \in 1..CsvMaxAyah
          /\ file.rows[i].timestamp # BadTimestamp
        valid == {i \in 1..Len(file.rows) : Valid(i)}
    IN  (file.headerOk /\ valid # {}) =>
          /\ lastImport.code = "ok"
          /\ {BookmarkKey(b) : b \in bookmarks}
               = {[surahNumber |-> file.rows[i].surah, ayahNumber |-> file.rows[i].verse] :
                    i \in valid}

\* C18: when the Arabic edition succeeds, fetchSurah returns every verse of
\* it, whatever the English, Urdu and audio requests come to (transport
\* error, non-2xx status, unparsable body, invalid shape).
C18_OptionalEditions ==
  (fetchCall # <<>> /\ fetchCall[1].op = "fetchSurah" /\ fetchCall[1].ar.kind = "ok") =>
    /\ fetchCall[1].result.kind = "ok"
    /\ Len(fetchCall[1].result.ayahs) = Len(fetchCall[1].ar.ayahs)

C20_FetchSorted ==
  (fetchCall # <<>> /\ fetchCall[1].op = "fetchSurah" /\ fetchCall[1].result.kind = "ok") =>
    LET r == fetchCall[1].result.ayahs
    IN  /\ Len(r) = Len(fetchCall[1].ar.ayahs)
        /\ \A i \in 1..Len(r) : \A j \in 1..Len(r) :
             i < j => r[i].ayahNumber <= r[j].ayahNumber

C20_Witness ==
  /\ fetchCall # <<>>
  /\ fetchCall[1].op = "fetchSurah"
  /\ fetchCall[1].result.kind = "ok"
  /\ Len(fetchCall[1].ar.ayahs) = MaxBatch
  /\ fetchCall[1].ar.ayahs[1].numberInSurah > fetchCall[1].ar.ayahs[MaxBatch].numberInSurah
  /\ fetchCall[1].en.kind = "ok"
  /\ Len(fetchCall[1].en.ayahs) = MaxBatch
  /\ fetchCall[1].en.ayahs[1] < fetchCall[1].en.ayahs[MaxBatch]

\* C21: the recoverable flag follows the taxonomy: an error of code
\* E_VALIDATION, E_INVALID_SETTINGS or E_INVALID_IMPORT carries recoverable =
\* false, an error of any other code carries recoverable = true. Stated of
\* the error the last settings call threw.
C21_RecoverableTaxonomy ==
  lastUpdate.code \notin {"", "ok"} =>
    (ErrorRecoverable(lastUpdate.code) <=>
       lastUpdate.code \notin {"E_VALIDATION", "E_INVALID_SETTINGS", "E_INVALID_IMPORT"})

\* C22: what the query function of surah n throws when it is offline and the
\* store holds no verse of n is an AppError: it carries one of the error
\* codes (and with it recoverable = true), it is no untyped Error.
C22_OfflineErrorTyped ==
  \A n \in Queried :
    (result[n].kind = "err" /\ isOffline[n] /\ ~netCall[n]) =>
      /\ result[n].code \in AppErrorCodes
      /\ ErrorRecoverable(result[n].code)

\* The transactions of the last store operation that the engine failed.
EngineFailed ==
  /\ engineCall # <<>>
  /\ \E i \in 1..Len(engineCall[1].events) : engineCall[1].events[i] # "complete"

\* C23: every failure of the storage engine during a store operation
\* (opening the database, a read, a write, a delete, a transaction abort)
\* surfaces as an AppError with code E_DB_INIT, E_DB_READ, E_DB_WRITE or
\* E_DB_DELETE and recoverable = true, importBookmarks and importSettings
\* included.
C23_EngineErrorsSurface ==
  EngineFailed =>
    /\ engineCall[1].outcome.state = "rejected"
    /\ engineCall[1].outcome.code \in {"E_DB_INIT", "E_DB_READ", "E_DB_WRITE", "E_DB_DELETE"}
    /\ engineCall[1].outcome.recoverable

\* C29: every store operation eventually settles: once the engine has
\* finished the transactions of the call (committed, failed a request or
\* aborted), the promise the operation returned is resolved or rejected.
C29_StoreOperationsSettle ==
  engineCall # <<>> => engineCall[1].outcome.state \in {"resolved", "rejected"}

\* C24: the timestamp of surah-n is written only after the fetched verses of
\* n were persisted: whenever the setCacheTimestamp write of a refresh has
\* succeeded, the cacheAyahs call of that refresh has committed (it has not
\* failed and is not still under way).
C24_StampAfterPersist ==
  \A n \in Queried : bgStamp[n] = "ok" => pc[bg(n)] = "cached"

\* C25: the useAyah query function is read-through: a verse that is in the
\* store is returned without a network call, and a verse it fetched on a miss
\* is in the store when it returns, so that the next query of the same verse
\* makes no network call.
C25_AyahReadThrough ==
  ayahCall # <<>> =>
    LET c == ayahCall[1]
        stored == FindAyah(getCachedSurah(ayahStore, c.surahNumber), c.ayahNumber)
    IN  /\ (c.netCall /\ c.kind = "ok") => stored
        /\ c.again => ~c.netCall

\* C26: two updateSettings calls that set disjoint fields both take effect:
\* once both have completed successfully, the stored settings hold the
\* values of both partial updates, also when the calls overlapped.
C26_NoLostUpdate ==
  \A c \in Updaters : \A d \in Updaters \ {c} :
    (/\ updaters[c].pc = "done"
     /\ updaters[d].pc = "done"
     /\ \A k \in SettingsKeys : ~(Present(updaters[c].partial, k) /\ Present(updaters[d].partial, k)))
    => \A k \in SettingsKeys :
         Present(updaters[c].partial, k) => settingsStore[1][k] = updaters[c].partial[k]

\* C27: every Ayah fetchSurah returns carries the translations and the audio
\* of its own verse: a text it has comes from the edition entry whose
\* numberInSurah is the Ayah's ayahNumber, for every order and length of the
\* edition arrays.
C27_OwnVerseTexts ==
  (fetchCall # <<>> /\ fetchCall[1].op = "fetchSurah" /\ fetchCall[1].result.kind = "ok") =>
    LET r == fetchCall[1].result.ayahs
    IN  \A i \in 1..Len(r) :
          /\ r[i].englishText \in {<<>>, <<r[i].ayahNumber>>}
          /\ r[i].urduText \in {<<>>, <<r[i].ayahNumber>>}
          /\ r[i].audioUrl \in {<<>>, <<r[i].ayahNumber>>}

\* C28: isSearching is true whenever a performSearch call is still in
\* flight, and when a call reads its verses successfully and no other is in
\* flight, the displayed results are those of the most recently issued query
\* and language (null when that query was blank).
C28_LatestSearchWins ==
  [][/\ searchHook'.inflight # <<>> => searchHook'.isSearching
     /\ (SearchDone /\ searchHook'.inflight = <<>> /\ searchHook.latest # <<>>) =>
          searchHook'.results = IF trim(searchHook.latest[1].query) = <<>> THEN <<>>
                                ELSE searchHook.latest]_vars

\* C30: every verse in the ayahs store satisfies the canonical Ayah schema in
\* every state the write paths reach: surahNumber in 1..114, ayahNumber >= 1,
\* globalAyahNumber in 1..6236, non-empty arabicText, juzNumber in 1..30, and
\* a surahNumber that is the surah a write path was run for.
C30_StoredVersesValid ==
  \A r \in schemaStore :
    /\ r.surahNumber \in 1..114
    /\ r.ayahNumber >= 1
    /\ r.globalAyahNumber \in 1..6236
    /\ r.arabicText # ""
    /\ r.juzNumber \in 1..30
    /\ r.surahNumber \in requestedSurahs

C30_Witness ==
  /\ Cardinality(schemaStore) = MaxAyah
  /\ schemaCall # <<>>
  /\ schemaCall[1].kind = "err"
  /\ schemaCall[1].surahNumber = 1
  /\ schemaCall[1].upstreamOk

====
